---------------------------- MODULE Spec2Model ----------------------------
(***************************************************************************)
(* State-machine model of youtube-download-ui.py, a Streamlit script.      *)
(*                                                                         *)
(* A Streamlit script is re-executed from top to bottom after every widget *)
(* event; st.session_state is the only program state that survives from    *)
(* one execution to the next.  One "interaction" is therefore: a widget    *)
(* event (with its on_change callback), followed by a complete run of the  *)
(* script.  The variable pc is the position of the run inside the script;  *)
(* pc = "idle" means the script is not running and the page waits for the  *)
(* user.  The collaborators (pytubefix, ffmpeg, the file system) are       *)
(* nondeterministic: every outcome they can produce is a separate choice.  *)
(***************************************************************************)
EXTENDS Integers, Sequences, FiniteSets, TLC

(***************************************************************************)
(* Strings are sequences of one-character strings, so that the regular     *)
(* expressions of the script can be applied to them.                       *)
(***************************************************************************)
Min(a, b) == IF a < b THEN a ELSE b

Max(a, b) == IF a < b THEN b ELSE a

\* s[from..] has the literal lit as a prefix
HasPrefixAt(s, from, lit) ==
    /\ from + Len(lit) - 1 <= Len(s)
    /\ \A i \in 1..Len(lit) : s[from + i - 1] = lit[i]

LitHttp == <<"h","t","t","p",":","/","/">>

LitHttps == <<"h","t","t","p","s",":","/","/">>

LitWww == <<"w","w","w",".">>

LitM == <<"m",".">>

LitWatch == <<"y","o","u","t","u","b","e",".","c","o","m","/","w","a","t","c","h","?","v","=">>

LitShorts == <<"y","o","u","t","u","b","e",".","c","o","m","/","s","h","o","r","t","s","/">>

LitShort == <<"y","o","u","t","u",".","b","e","/">>

\* the characters \s of Python's re module that the model's alphabet has
Whitespace == {" ", "\t", "\n"}

\* the characters that the class [^&?/\s] of YOUTUBE_REGEX excludes
NotIdChars == {"&", "?", "/"} \cup Whitespace

IdChar(c) == c \notin NotIdChars

\* the repetition count {11} of YOUTUBE_REGEX
IdLen == 11

\* the positions at which matching may continue after an optional group
AfterOptional(s, starts, lits) ==
    starts \cup { p + Len(l) : <<p, l>> \in
                    { pl \in starts \X lits : HasPrefixAt(s, pl[1], pl[2]) } }

\* the positions at which matching continues after a mandatory alternative
AfterRequired(s, starts, lits) ==
    { p + Len(l) : <<p, l>> \in
        { pl \in starts \X lits : HasPrefixAt(s, pl[1], pl[2]) } }

\* YOUTUBE_REGEX.match(url): anchored at the start, not at the end
YOUTUBE_REGEX_match(url) ==
    LET s1 == AfterOptional(url, {1}, {LitHttp, LitHttps})
        s2 == AfterOptional(url, s1, {LitWww, LitM})
        s3 == AfterRequired(url, s2, {LitWatch, LitShorts, LitShort})
    IN  \E p \in s3 :
            /\ p + IdLen - 1 <= Len(url)
            /\ \A i \in p..(p + IdLen - 1) : IdChar(url[i])

\* a validator that only requires a non-empty text
is_valid_nonempty(url) == url # <<>>

is_valid_youtube_url(url) ==
    IF url = <<>> THEN FALSE ELSE YOUTUBE_REGEX_match(url)


(***************************************************************************)
(* sanitize_filename                                                       *)
(***************************************************************************)
\* the class [\\/*?:"<>|] removed by the first re.sub
StripChars == {"\\", "/", "*", "?", ":", "\"", "<", ">", "|"}

\* the argument of the last str.strip
TrimChars == {"_", ".", "-", " "}

\* the length at which sanitize_filename cuts its result
MaxNameLen == 100

Placeholder == <<"d","o","w","n","l","o","a","d","e","d","_","v","i","d","e","o">>

RECURSIVE LStrip(_, _)
LStrip(s, cs) ==
    IF s # <<>> /\ Head(s) \in cs THEN LStrip(Tail(s), cs) ELSE s

RECURSIVE RStrip(_, _)
RStrip(s, cs) ==
    IF s # <<>> /\ s[Len(s)] \in cs THEN RStrip(SubSeq(s, 1, Len(s) - 1), cs) ELSE s

\* str.strip(chars)
Strip(s, cs) == RStrip(LStrip(s, cs), cs)

\* re.sub(r'\s+', '_', s): every maximal run of whitespace becomes one "_"
CollapseWhitespace(s) ==
    LET kept == SelectSeq([i \in 1..Len(s) |-> i],
                          LAMBDA i : \/ s[i] \notin Whitespace
                                     \/ i = 1
                                     \/ s[i - 1] \notin Whitespace)
    IN  [k \in 1..Len(kept) |->
            IF s[kept[k]] \in Whitespace THEN "_" ELSE s[kept[k]]]

IsKeptChar(c) == c \notin StripChars

sanitize_filename(title) ==
    IF title = <<>> THEN Placeholder
    ELSE LET a == Strip(SelectSeq(title, IsKeptChar), Whitespace)
             b == CollapseWhitespace(a)
             c == Strip(b, TrimChars)
         IN  IF Len(c) > MaxNameLen THEN SubSeq(c, 1, MaxNameLen) ELSE c

(***************************************************************************)
(* Values of the script.  None is modelled per type: the empty sequence    *)
(* for a string or a dict, NoError for error_message, NoPath for a path,   *)
(* NoInfo for video_info, 0 for an itag.                                   *)
(***************************************************************************)
DOWNLOAD_DIR == <<"downloads">>

TEMP_DIR_NAME == <<"temp">>

MODE_AUTO == "DASH_Auto"

MODE_MANUAL == "DASH_Manual"

MODE_PROGRESSIVE == "Progressive"

Modes == {MODE_AUTO, MODE_MANUAL, MODE_PROGRESSIVE}

\* the order in which available_modes_map receives its keys
ModeOrder == <<MODE_AUTO, MODE_MANUAL, MODE_PROGRESSIVE>>

\* a message: a fixed text of the script followed by the first diag
\* characters of a diagnostic text that a collaborator supplied
Msg(text, diag) == [text |-> text, diag |-> diag]

NoError == Msg(<<>>, 0)

\* Python's truth value of error_message
IsSet(m) == m # NoError

\* os.path.join(dir..., name): a directory and a file name
Path(dir, name) == [dir |-> dir, name |-> name]

NoPath == Path(<<>>, <<>>)

NoInfo == [title |-> <<>>, yt_object |-> FALSE]

(***************************************************************************)
(* The streams the extraction collaborator can report.  A stream is opaque *)
(* to the script except for the attributes below; "" stands for None.      *)
(***************************************************************************)
Stream(itag, res, abr, codec, sub, sized) ==
    [itag |-> itag, resolution |-> res, abr |-> abr, audio_codec |-> codec,
     subtype |-> sub, has_filesize |-> sized]

\* progressive: one with all attributes, one without a resolution
P18 == Stream(18, "360p", "96kbps", "mp4a.40.2", "mp4", TRUE)

P22 == Stream(22, "", "", "mp4a.40.2", "mp4", TRUE)

\* video only
V137 == Stream(137, "1080p", "", "", "mp4", TRUE)

V299 == Stream(299, "1080p", "", "", "mp4", TRUE)

\* audio only
A251 == Stream(251, "", "128kbps", "opus", "webm", TRUE)

A171 == Stream(171, "", "128kbps", "vorbis", "webm", TRUE)

\* audio only, audio_codec None
A139 == Stream(139, "", "128kbps", "", "webm", TRUE)

\* what yt.streams can hold: the three itag_index dicts of lines 156-158,
\* each in its iteration order
Buckets(prog, video, audio) == [prog |-> prog, video |-> video, audio |-> audio]

Videos ==
    { Buckets(<<>>, <<>>, <<A251>>),
      Buckets(<<P18, P22>>, <<>>, <<>>),
      Buckets(<<>>, <<V137, V299>>, <<>>),
      Buckets(<<>>, <<V137, V299>>, <<A251, A171>>),
      Buckets(<<>>, <<V137>>, <<A251, A139>>),
      Buckets(<<P18, P22>>, <<V137>>, <<A251>>) }

\* the titles the collaborator can report
Titles == {<<"M", "y", " ", "V", ":">>}

\* the lengths of the diagnostic texts (exception texts, stderr)
DiagLens == {14, 300}

\* the texts a user can have in the URL box
VideoId1 == <<"d","Q","w","4","w","9","W","g","X","c","Q">>

VideoId2 == <<"a","b","c","d","e","f","g","h","i","j","k">>

Url1 == LitShort \o VideoId1

Url2 == LitM \o LitShort \o VideoId2

\* a short link whose id has 10 characters
BadUrl == LitShort \o SubSeq(VideoId1, 1, 10)

Inputs == {<<>>, BadUrl, Url1, Url2}


(***************************************************************************)
(* State                                                                   *)
(***************************************************************************)
VARIABLES
    session_state,      \* st.session_state: the keys of DEFAULT_STATE
    url_input_widget,   \* the text of the URL box (widget state)
    mode_radio,         \* the radio's value; "" when the last run did not render it
    dl_button,          \* key of the enabled download button the last run rendered
    pc,                 \* position of the running script; "idle" between runs
    submit_button,      \* the run's value of the Fetch button
    clicked,            \* key of the download button whose click started the run
    should_fetch,
    trigger_download,
    selected_stream_itag,   \* Progressive: the select box's itag
    selected_video_itag_manual, \* DASH-Manual: the video select box's itag
    selected_audio_itag_manual, \* DASH-Manual: the audio select box's itag
    selected_video_itag,    \* DASH: the video itag resolved for the download
    selected_audio_itag,    \* DASH: the audio itag resolved for the download
    exc,                \* the exception in flight or caught; NoExc when none
    warned,             \* line 153 logged that check_availability raised
    fs,                 \* the files under DOWNLOAD_DIR: path -> "empty" | "data"
    temp_dir,           \* whether DOWNLOAD_DIR/temp exists
    clock,              \* time.time(), in quarters of a second
    bytes_remaining,    \* the transfer in progress: bytes not yet received
    progress_bar_calls, \* progress_bar.progress calls made by progress_callback
                        \* during the transfer in progress
    status_text_calls,  \* status_text.info calls made by progress_callback
                        \* during the transfer in progress
    calls,              \* the collaborator calls of the current run, in order
    last_error          \* history: kind of the last error recorded since the
                        \* last Fetch click ("none" when there is none)

\* the clock and what progress_callback sees and does
meter == <<clock, bytes_remaining, progress_bar_calls, status_text_calls>>

vars == <<session_state, url_input_widget, mode_radio, dl_button, pc,
          submit_button, clicked, should_fetch, trigger_download,
          selected_stream_itag, selected_video_itag_manual,
          selected_audio_itag_manual, selected_video_itag, selected_audio_itag,
          exc, warned, fs, temp_dir, meter, calls, last_error>>

widgets == <<url_input_widget, mode_radio, dl_button>>

locals == <<submit_button, clicked, should_fetch, trigger_download,
            selected_stream_itag, selected_video_itag_manual,
            selected_audio_itag_manual, selected_video_itag,
            selected_audio_itag, exc, warned>>

disk == <<fs, temp_dir>>

selection == <<selected_stream_itag, selected_video_itag_manual,
               selected_audio_itag_manual, selected_video_itag,
               selected_audio_itag>>

\* an exception: a fixed text of len characters, then n characters of a
\* collaborator's diagnostic
Exc(text, len, n) == [text |-> text, len |-> len, n |-> n]

NoExc == Exc("", 0, 0)

DEFAULT_STATE ==
    [video_info |-> NoInfo, error_message |-> NoError,
     download_in_progress |-> FALSE, download_complete |-> FALSE,
     downloaded_file_path |-> NoPath, downloaded_file_name |-> <<>>,
     downloaded_file_size |-> "", last_submitted_url |-> <<>>,
     last_fetched_url |-> <<>>, last_progress |-> -1, last_update_time |-> 0,
     streams_fetched |-> FALSE, progressive_streams |-> <<>>,
     adaptive_video_streams |-> <<>>, adaptive_audio_streams |-> <<>>,
     download_mode |-> MODE_AUTO, merge_status |-> NoError,
     current_download_phase |-> "", ffmpeg_available |-> FALSE]

\* a reset list that leaves video_info out
keys_to_reset_without_info ==
    {"error_message", "download_in_progress",
     "download_complete", "downloaded_file_path", "downloaded_file_name",
     "downloaded_file_size", "last_progress", "last_update_time",
     "streams_fetched", "progressive_streams", "adaptive_video_streams",
     "adaptive_audio_streams", "merge_status", "current_download_phase"}

keys_to_reset ==
    {"video_info", "error_message", "download_in_progress",
     "download_complete", "downloaded_file_path", "downloaded_file_name",
     "downloaded_file_size", "last_progress", "last_update_time",
     "streams_fetched", "progressive_streams", "adaptive_video_streams",
     "adaptive_audio_streams", "merge_status", "current_download_phase"}

reset_download_state(ss) ==
    [key \in DOMAIN ss |->
        IF key \in keys_to_reset THEN DEFAULT_STATE[key] ELSE ss[key]]

\* an on_change callback that does not ask for a completed download
handle_url_change_any_state(ss, current_url) ==
    IF /\ current_url # <<>>
       /\ current_url # ss.last_submitted_url
       /\ is_valid_youtube_url(current_url)
    THEN reset_download_state([ss EXCEPT !.last_submitted_url = current_url])
    ELSE ss

handle_url_change(ss, current_url) ==
    IF /\ ss.download_complete
       /\ current_url # <<>>
       /\ current_url # ss.last_submitted_url
       /\ is_valid_youtube_url(current_url)
    THEN reset_download_state([ss EXCEPT !.last_submitted_url = current_url])
    ELSE ss

\* the file system
Exists(f, p) == p \in DOMAIN f

NonEmpty(f, p) == Exists(f, p) /\ f[p] = "data"

Write(f, p, content) ==
    [q \in (DOMAIN f) \cup {p} |-> IF q = p THEN content ELSE f[q]]

Remove(f, p) == [q \in (DOMAIN f) \ {p} |-> f[q]]

\* what a collaborator that writes p can leave there: "keep" leaves the
\* file system as it was
Written(f, p, content) == IF content = "keep" THEN f ELSE Write(f, p, content)

Call(op, url, itag) == [op |-> op, url |-> url, itag |-> itag]

\* check_ffmpeg() is evaluated once, when the session starts
Init ==
    /\ session_state \in
         {[DEFAULT_STATE EXCEPT !.ffmpeg_available = b] : b \in BOOLEAN}
    /\ url_input_widget = <<>>
    /\ mode_radio = ""
    /\ dl_button = ""
    /\ pc = "idle"
    /\ submit_button = FALSE
    /\ clicked = ""
    /\ should_fetch = FALSE
    /\ trigger_download = FALSE
    /\ selected_stream_itag = 0
    /\ selected_video_itag_manual = 0
    /\ selected_audio_itag_manual = 0
    /\ selected_video_itag = 0
    /\ selected_audio_itag = 0
    /\ exc = NoExc
    /\ warned = FALSE
    /\ fs = <<>>
    /\ temp_dir = FALSE
    /\ clock = 1
    /\ bytes_remaining = 0
    /\ progress_bar_calls = 0
    /\ status_text_calls = 0
    /\ calls = <<>>
    /\ last_error = "none"

(***************************************************************************)
(* Pure parts of the script, lines 129-239 and 338-358.                    *)
(***************************************************************************)
\* the elements of a sequence
Range(seq) == {seq[i] : i \in 1..Len(seq)}

\* the rule without its last condition (the last-fetched marker)
AutoFetchRuleNoMarker(ss, url) ==
    /\ url = ss.last_submitted_url
    /\ ~ss.streams_fetched
    /\ ~IsSet(ss.error_message)
    /\ is_valid_youtube_url(url)

\* the rule without its condition on error_message
AutoFetchRuleDespiteError(ss, url) ==
    /\ url = ss.last_submitted_url
    /\ ~ss.streams_fetched
    /\ is_valid_youtube_url(url)
    /\ ss.last_fetched_url # url

\* lines 137-139: the condition of the elif
AutoFetchRule(ss, url) ==
    /\ url = ss.last_submitted_url
    /\ ~ss.streams_fetched
    /\ ~IsSet(ss.error_message)
    /\ is_valid_youtube_url(url)
    /\ ss.last_fetched_url # url

\* a submission that records the URL and resets nothing
SubmittedNoReset(ss, url) == [ss EXCEPT !.last_submitted_url = url]

\* lines 133-134
Submitted(ss, url) ==
    reset_download_state([ss EXCEPT !.last_submitted_url = url])

\* line 145: the second validation, before the collaborator is used
FetchGuard(url) == is_valid_youtube_url(url)

\* a fetch whose check looks at the progressive bucket alone
FetchedStateProgressiveOnly(ss, url, title, streams) ==
    LET got == [ss EXCEPT
                  !.error_message = NoError,
                  !.progressive_streams = streams.prog,
                  !.adaptive_video_streams = streams.video,
                  !.adaptive_audio_streams = streams.audio,
                  !.video_info = [title |-> title, yt_object |-> TRUE],
                  !.streams_fetched = TRUE,
                  !.download_complete = FALSE,
                  !.merge_status = NoError,
                  !.last_fetched_url = url]
    IN  IF streams.prog = <<>>
        THEN [got EXCEPT
                !.error_message =
                    Msg(<<"No downloadable MP4 video streams found.">>, 0),
                !.streams_fetched = FALSE]
        ELSE got

\* a fetch that lacks the check of lines 162-163
FetchedStateUnchecked(ss, url, title, streams) ==
    [ss EXCEPT
       !.error_message = NoError,
       !.progressive_streams = streams.prog,
       !.adaptive_video_streams = streams.video,
       !.adaptive_audio_streams = streams.audio,
       !.video_info = [title |-> title, yt_object |-> TRUE],
       !.streams_fetched = TRUE,
       !.download_complete = FALSE,
       !.merge_status = NoError,
       !.last_fetched_url = url]

\* lines 156-163: the state after yt.title and yt.streams have returned
FetchedState(ss, url, title, streams) ==
    LET prog == streams.prog
        video == streams.video
        audio == streams.audio
        got == [ss EXCEPT
                  !.error_message = NoError,
                  !.progressive_streams = prog,
                  !.adaptive_video_streams = video,
                  !.adaptive_audio_streams = audio,
                  !.video_info = [title |-> title, yt_object |-> TRUE],
                  !.streams_fetched = TRUE,
                  !.download_complete = FALSE,
                  !.merge_status = NoError,
                  !.last_fetched_url = url]
    IN  IF prog = <<>> /\ video = <<>>
        THEN [got EXCEPT
                !.error_message =
                    Msg(<<"No downloadable MP4 video streams found.">>, 0),
                !.streams_fetched = FALSE]
        ELSE got

\* the error_message of a fetch without the handler of line 164
FetchErrorMessageGeneric(kind, n) ==
    IF kind = "RegexMatchError"
    THEN Msg(<<"Invalid YouTube URL format.">>, 0)
    ELSE Msg(<<"Fetch error: ">>, Min(n, 150))

\* the error_message of lines 164-166; n is the length of str(e)
FetchErrorMessage(kind, n) ==
    IF kind = "VideoUnavailable"
    THEN Msg(<<"Video unavailable (private, deleted, restricted).">>, 0)
    ELSE IF kind = "RegexMatchError"
    THEN Msg(<<"Invalid YouTube URL format.">>, 0)
    ELSE Msg(<<"Fetch error: ">>, Min(n, 150))

\* lines 174-175
OptionsShown(ss, url) ==
    /\ ss.streams_fetched
    /\ ss.last_fetched_url = url
    /\ ~ss.download_in_progress
    /\ ~ss.download_complete

\* DASH offered whether or not ffmpeg was found
dash_possible_without_ffmpeg(ss) ==
    /\ ss.adaptive_video_streams # <<>>
    /\ ss.adaptive_audio_streams # <<>>

\* lines 180-184
dash_possible(ss) ==
    /\ ss.ffmpeg_available
    /\ ss.adaptive_video_streams # <<>>
    /\ ss.adaptive_audio_streams # <<>>

available_modes_map(ss) ==
    (IF dash_possible(ss) THEN {MODE_AUTO, MODE_MANUAL} ELSE {})
    \cup (IF ss.progressive_streams # <<>> THEN {MODE_PROGRESSIVE} ELSE {})

\* lines 187-190: the radio's default is the first label unless Auto or
\* Manual is among the labels
available_mode_labels(ss) ==
    SelectSeq(ModeOrder, LAMBDA m : m \in available_modes_map(ss))

DefaultMode(ss) ==
    IF MODE_AUTO \in available_modes_map(ss) THEN MODE_AUTO
    ELSE IF MODE_MANUAL \in available_modes_map(ss) THEN MODE_MANUAL
    ELSE available_mode_labels(ss)[1]

\* st.radio: the widget's own value while it is one of the options
RadioValue(ss, radio) ==
    IF radio \in available_modes_map(ss) THEN radio ELSE DefaultMode(ss)

\* the itags the select boxes offer (lines 204, 216, 221-225)
prog_opts(ss) ==
    {st.itag : st \in {x \in Range(ss.progressive_streams) :
                            x.resolution # "" /\ x.has_filesize}}

vid_opts(ss) ==
    {st.itag : st \in {x \in Range(ss.adaptive_video_streams) :
                            x.resolution # "" /\ x.has_filesize}}

aud_opts(ss) ==
    {st.itag : st \in {x \in Range(ss.adaptive_audio_streams) :
                            x.abr # "" /\ x.has_filesize}}

\* the key of the enabled download button the mode's container shows
\* (lines 208, 228, 239); "" when it shows none
ButtonKey(ss, mode) ==
    IF mode = MODE_PROGRESSIVE
    THEN (IF prog_opts(ss) # {} THEN "dl_prog" ELSE "")
    ELSE IF mode = MODE_MANUAL
    THEN (IF vid_opts(ss) # {} /\ aud_opts(ss) # {} THEN "dl_dash_manual" ELSE "")
    ELSE "dl_dash_auto"

\* the values the select boxes of the mode can hold: <<p, v, a>>
SelectBoxes(ss, mode) ==
    IF mode = MODE_PROGRESSIVE
    THEN {<<p, 0, 0>> : p \in prog_opts(ss)}
    ELSE IF mode = MODE_MANUAL
    THEN {0} \X vid_opts(ss) \X aud_opts(ss)
    ELSE {<<0, 0, 0>>}

\* what the select boxes can hold when the script reads them, whatever the
\* mode; <<0, 0, 0>> when the script does not read them
Choices(ss) ==
    {<<0, 0, 0>>} \cup UNION {SelectBoxes(ss, mode) : mode \in Modes}

\* line 345: the condition of the assert (open() needs the same)
LinkFileValid(ss, f) ==
    ss.downloaded_file_path # NoPath /\ Exists(f, ss.downloaded_file_path)

\* lines 338-358: the state the last section of the script leaves
LinkSection(ss, url, f) ==
    IF /\ ss.download_complete
       /\ ss.last_fetched_url = url
       /\ ~LinkFileValid(ss, f)
    THEN reset_download_state(ss)
    ELSE ss

(***************************************************************************)
(* One run of the script.  A run that neither fetches nor downloads is one *)
(* step; a fetch and a download are made of the steps below.               *)
(***************************************************************************)
\* the run ends with session state ss: its local variables are gone (the
\* exception it handled, the warning it logged and the collaborator calls
\* it made stay on record until the next run)
Finish(ss) ==
    /\ session_state' = ss
    /\ pc' = "idle"
    /\ submit_button' = FALSE
    /\ clicked' = ""
    /\ should_fetch' = FALSE
    /\ trigger_download' = FALSE
    /\ selected_stream_itag' = 0
    /\ selected_video_itag_manual' = 0
    /\ selected_audio_itag_manual' = 0
    /\ selected_video_itag' = 0
    /\ selected_audio_itag' = 0

\* lines 174-242 and, when no download is triggered, lines 338-358, from
\* session state ss.  radio is the radio's value, key the clicked download
\* button, sel the itags <<p, v, a>> of the select boxes.
Render(ss, url, radio, key, sel) ==
    IF ~OptionsShown(ss, url)
    THEN /\ sel = <<0, 0, 0>>
         /\ mode_radio' = ""
         /\ dl_button' = ""
         /\ Finish(LinkSection(ss, url, fs))
    ELSE IF available_modes_map(ss) = {}
    THEN \* line 186: st.stop()
         /\ sel = <<0, 0, 0>>
         /\ mode_radio' = ""
         /\ dl_button' = ""
         /\ Finish(ss)
    ELSE LET mode == RadioValue(ss, radio)
             shown == ButtonKey(ss, mode)
             chosen == [ss EXCEPT !.download_mode = mode]
         IN  /\ mode_radio' = mode
             /\ dl_button' = shown
             /\ IF key # "" /\ key = shown
                THEN \* trigger_download is True
                     /\ sel \in SelectBoxes(ss, mode)
                     /\ session_state' = chosen
                     /\ pc' = "dl_init"
                     /\ submit_button' = FALSE
                     /\ clicked' = key
                     /\ should_fetch' = FALSE
                     /\ trigger_download' = TRUE
                     /\ selected_stream_itag' = sel[1]
                     /\ selected_video_itag_manual' = sel[2]
                     /\ selected_audio_itag_manual' = sel[3]
                     /\ selected_video_itag' = 0
                     /\ selected_audio_itag' = 0
                ELSE /\ sel = <<0, 0, 0>>
                     /\ Finish(LinkSection(chosen, url, fs))

\* a widget event and the run it starts, up to the first collaborator call
\* or the end of the run.  u is the text of the URL box (on_change runs
\* handle_url_change first when it is new), fetch_clicked the Fetch button.
Run(u, fetch_clicked, radio, key, sel) ==
    /\ pc = "idle"
    /\ url_input_widget' = u
    /\ exc' = NoExc
    /\ warned' = FALSE
    /\ calls' = <<>>
    /\ UNCHANGED <<disk, meter>>
    /\ LET ss == IF u # url_input_widget
                 THEN handle_url_change(session_state, u)
                 ELSE session_state
       IN  IF fetch_clicked /\ u # <<>>
           THEN \* lines 131-134
                /\ sel = <<0, 0, 0>>
                /\ session_state' = Submitted(ss, u)
                /\ last_error' = "none"
                /\ pc' = "validate"
                /\ submit_button' = TRUE
                /\ clicked' = key
                /\ mode_radio' = radio
                /\ UNCHANGED <<dl_button, should_fetch, trigger_download,
                               selection>>
           ELSE IF AutoFetchRule(ss, u)
           THEN \* lines 137-140
                /\ sel = <<0, 0, 0>>
                /\ session_state' = ss
                /\ should_fetch' = TRUE
                /\ pc' = "fetch"
                /\ submit_button' = fetch_clicked
                /\ clicked' = key
                /\ mode_radio' = radio
                /\ UNCHANGED <<dl_button, trigger_download, selection,
                               last_error>>
           ELSE /\ Render(ss, u, radio, key, sel)
                /\ UNCHANGED last_error

(***************************************************************************)
(* Widget events.  Each starts a run of the script.                        *)
(***************************************************************************)
\* the text box changes
UserChangesUrl(u) ==
    /\ u # url_input_widget
    /\ Run(u, FALSE, mode_radio, "", <<0, 0, 0>>)

\* st.button("Fetch Video Info") is clicked
UserClicksFetch ==
    Run(url_input_widget, TRUE, mode_radio, "", <<0, 0, 0>>)

\* the text is edited and the Fetch button clicked in one go: one run, with
\* the callback first and the button set
UserChangesUrlAndClicksFetch(u) ==
    /\ u # url_input_widget
    /\ Run(u, TRUE, mode_radio, "", <<0, 0, 0>>)

\* the radio is used: it offers the modes the last run computed
UserChoosesMode(m) ==
    /\ mode_radio # ""
    /\ m \in available_modes_map(session_state)
    /\ m # mode_radio
    /\ Run(url_input_widget, FALSE, m, "", <<0, 0, 0>>)

\* the download button on the page is clicked; sel is what the select boxes
\* hold
UserClicksDownload(sel) ==
    /\ dl_button # ""
    /\ Run(url_input_widget, FALSE, mode_radio, dl_button, sel)

\* any other widget event (a select box, the save button): a plain rerun
UserReruns ==
    Run(url_input_widget, FALSE, mode_radio, "", <<0, 0, 0>>)

\* the finished file is deleted outside the program (the case lines 357-358
\* handle)
FileRemoved ==
    /\ pc = "idle"
    /\ session_state.download_complete
    /\ Exists(fs, session_state.downloaded_file_path)
    /\ fs' = Remove(fs, session_state.downloaded_file_path)
    /\ UNCHANGED <<session_state, widgets, pc, locals, temp_dir, meter, calls,
                   last_error>>

(***************************************************************************)
(* The script, lines 135-167: the validation and the fetch.                *)
(***************************************************************************)
current_input_url == url_input_widget

fetch_url == session_state.last_submitted_url

\* line 135: the submitted text is a valid URL
SubmittedValid ==
    /\ pc = "validate"
    /\ is_valid_youtube_url(current_input_url)
    /\ should_fetch' = TRUE
    /\ pc' = "fetch"
    /\ UNCHANGED <<session_state, widgets, submit_button, clicked,
                   trigger_download, selection, exc, warned, disk, meter,
                   calls, last_error>>

\* line 136: it is not; the rest of the run fetches nothing
SubmittedInvalid ==
    /\ pc = "validate"
    /\ ~is_valid_youtube_url(current_input_url)
    /\ last_error' = "invalid"
    /\ Render([session_state EXCEPT
                 !.error_message = Msg(<<"Invalid YouTube URL format.">>, 0)],
              current_input_url, mode_radio, clicked, <<0, 0, 0>>)
    /\ UNCHANGED <<url_input_widget, exc, warned, disk, meter, calls>>

\* lines 147-163: the collaborator answers, and the run goes on to its end
\* (lines 169-242, 338-358).  check_availability may raise VideoUnavailable
\* first: line 153 logs it and goes on.
FetchReturns(title, streams, avail_raises, sel) ==
    /\ pc = "fetch"
    /\ should_fetch /\ FetchGuard(fetch_url)
    /\ calls' = Append(calls, Call("YouTube", fetch_url, 0))
    /\ last_error' = IF streams.prog = <<>> /\ streams.video = <<>>
                      THEN "fetch" ELSE last_error
    /\ Render(FetchedState(session_state, fetch_url, title, streams),
              current_input_url, mode_radio, clicked, sel)
    /\ warned' = avail_raises
    /\ UNCHANGED <<url_input_widget, exc, disk, meter>>

\* lines 145-166: YouTube(), yt.title or yt.streams raises (n is the length
\* of str(e)), or line 145 finds the URL invalid and nothing is called; the
\* run goes on to its end.  check_availability may have raised and been
\* logged before title or streams raises.
FetchRaises(kind, n, avail_raises) ==
    /\ pc = "fetch"
    /\ should_fetch
    /\ IF FetchGuard(fetch_url)
       THEN /\ Render([session_state EXCEPT
                         !.error_message = FetchErrorMessage(kind, n),
                         !.streams_fetched = FALSE],
                      current_input_url, mode_radio, clicked, <<0, 0, 0>>)
            /\ calls' = Append(calls, Call("YouTube", fetch_url, 0))
            /\ last_error' = "fetch"
            /\ warned' = avail_raises
       ELSE /\ Render([session_state EXCEPT
                         !.error_message = Msg(<<"Invalid URL.">>, 0)],
                      current_input_url, mode_radio, clicked, <<0, 0, 0>>)
            /\ last_error' = "invalid"
            /\ warned' = FALSE
            /\ UNCHANGED calls
    /\ UNCHANGED <<url_input_widget, exc, disk, meter>>

(***************************************************************************)
(* The script, lines 242-335: the download.                                *)
(***************************************************************************)
\* lines 243-268.  video_info always holds 'yt_object' when the options are
\* shown; line 264 is kept for the case that it does not.
DownloadInit ==
    /\ pc = "dl_init"
    /\ IF session_state.video_info.yt_object
       THEN /\ session_state' = [session_state EXCEPT
                    !.download_in_progress = TRUE,
                    !.error_message = NoError,
                    !.download_complete = FALSE,
                    !.downloaded_file_path = NoPath,
                    !.merge_status = NoError,
                    !.last_progress = -1,
                    !.last_update_time = 0]
            /\ pc' = "resolve"
            /\ UNCHANGED <<submit_button, clicked, should_fetch,
                           trigger_download, selection>>
       ELSE Finish([session_state EXCEPT !.download_in_progress = FALSE])
    /\ UNCHANGED <<widgets, exc, warned, disk, meter, calls, last_error>>

mode_to_execute == session_state.download_mode

\* a filter that lacks the opus test
non_opus_unfiltered(ss) ==
    SelectSeq(ss.adaptive_audio_streams, LAMBDA st : st.audio_codec # "")

\* lines 235 and 280: the audio streams whose codec is set and is not opus
non_opus(ss) ==
    SelectSeq(ss.adaptive_audio_streams,
              LAMBDA st : st.audio_codec # "" /\ st.audio_codec # "opus")

\* lines 278-283: the pair DASH-Auto selects; 0 where nothing can be selected
AutoVideoItag(ss) ==
    IF ss.adaptive_video_streams = <<>> THEN 0
    ELSE ss.adaptive_video_streams[1].itag

AutoAudioItag(ss) ==
    IF non_opus(ss) # <<>> THEN non_opus(ss)[1].itag
    ELSE IF ss.adaptive_audio_streams # <<>>
    THEN ss.adaptive_audio_streams[1].itag
    ELSE 0

\* lines 271-284: the exception the resolution raises, NoExc when none
ResolveError(ss, mode, p, v, a) ==
    IF mode = MODE_PROGRESSIVE
    THEN (IF p = 0 THEN Exc("Progressive stream missing.", 27, 0) ELSE NoExc)
    ELSE IF mode = MODE_MANUAL
    THEN (IF v = 0 \/ a = 0 THEN Exc("Manual DASH streams missing.", 28, 0)
          ELSE NoExc)
    ELSE IF AutoVideoItag(ss) = 0 THEN Exc("No video for auto.", 18, 0)
    ELSE IF AutoAudioItag(ss) = 0 THEN Exc("No audio for auto.", 18, 0)
    ELSE NoExc

\* lines 270-287
ResolveStreams ==
    /\ pc = "resolve"
    /\ LET e == ResolveError(session_state, mode_to_execute,
                             selected_stream_itag, selected_video_itag_manual,
                             selected_audio_itag_manual)
       IN  IF e # NoExc
           THEN /\ exc' = e
                /\ pc' = "except"
                /\ UNCHANGED <<selected_video_itag, selected_audio_itag>>
           ELSE /\ exc' = exc
                /\ selected_video_itag' =
                     IF mode_to_execute = MODE_MANUAL
                     THEN selected_video_itag_manual
                     ELSE IF mode_to_execute = MODE_AUTO
                     THEN AutoVideoItag(session_state) ELSE 0
                /\ selected_audio_itag' =
                     IF mode_to_execute = MODE_MANUAL
                     THEN selected_audio_itag_manual
                     ELSE IF mode_to_execute = MODE_AUTO
                     THEN AutoAudioItag(session_state) ELSE 0
                /\ pc' = IF mode_to_execute = MODE_PROGRESSIVE
                         THEN "prog_dl" ELSE "dash_prep"
    /\ UNCHANGED <<session_state, widgets, submit_button, clicked, should_fetch,
                   trigger_download, selected_stream_itag,
                   selected_video_itag_manual, selected_audio_itag_manual,
                   warned, disk, meter, calls, last_error>>

\* yt.streams.get_by_itag: the streams are those the fetch put in the buckets
AllStreams(ss) ==
    Range(ss.progressive_streams) \cup Range(ss.adaptive_video_streams)
        \cup Range(ss.adaptive_audio_streams)

get_by_itag(ss, itag) == CHOOSE st \in AllStreams(ss) : st.itag = itag

base_filename(ss) == sanitize_filename(ss.video_info.title)

temp_dir_path == DOWNLOAD_DIR \o TEMP_DIR_NAME

\* "x or default"
Or(x, default) == IF x = "" THEN default ELSE x

\* line 293
ProgressiveFileName(ss, stream) ==
    base_filename(ss) \o <<"_", Or(stream.resolution, "prog"), ".mp4">>

\* line 299
DashFileName(ss, video_stream, audio_stream) ==
    base_filename(ss) \o <<"_", Or(video_stream.resolution, "vid"), "_",
                           Or(audio_stream.abr, "aud"), ".mp4">>

\* lines 302-303
temp_video_path(ss) == Path(temp_dir_path, base_filename(ss) \o <<"_vid.mp4">>)

temp_audio_path(ss, audio_stream) ==
    Path(temp_dir_path,
         base_filename(ss) \o <<"_aud.", Or(audio_stream.subtype, "m4a")>>)

final_filepath(ss) == Path(DOWNLOAD_DIR, ss.downloaded_file_name)

\* what stream.download can leave at its target when it returns, and when
\* it raises ("keep": the file system is as before the call)
ReturnedContents == {"data", "empty", "keep"}

RaisedContents == {"keep", "data"}

\* lines 290-293: the state when stream.download is called
ProgressiveStarted(ss, now) ==
    [ss EXCEPT
        !.current_download_phase = "Downloading Combined Video/Audio",
        !.last_progress = -1,
        !.last_update_time = now,
        !.downloaded_file_name =
            ProgressiveFileName(ss, get_by_itag(ss, selected_stream_itag))]

\* lines 289-294: stream.download returns its target path
ProgressiveDownloadReturns(content) ==
    /\ pc = "prog_dl"
    /\ content \in ReturnedContents
    /\ LET started == ProgressiveStarted(session_state, clock)
           target == final_filepath(started)
       IN  /\ session_state' = [started EXCEPT !.downloaded_file_path = target]
           /\ fs' = Written(fs, target, content)
    /\ calls' = Append(calls, Call("download", <<>>, selected_stream_itag))
    /\ pc' = "final"
    /\ UNCHANGED <<widgets, locals, temp_dir, meter, last_error>>

\* lines 289-294: stream.download raises; n is the length of str(e)
ProgressiveDownloadRaises(content, n) ==
    /\ pc = "prog_dl"
    /\ content \in RaisedContents
    /\ LET started == ProgressiveStarted(session_state, clock)
       IN  /\ session_state' = started
           /\ fs' = Written(fs, final_filepath(started), content)
    /\ calls' = Append(calls, Call("download", <<>>, selected_stream_itag))
    /\ exc' = Exc("", 0, n)
    /\ pc' = "except"
    /\ UNCHANGED <<widgets, submit_button, clicked, should_fetch,
                   trigger_download, selection, warned, temp_dir, meter,
                   last_error>>

video_stream == get_by_itag(session_state, selected_video_itag)

audio_stream == get_by_itag(session_state, selected_audio_itag)

\* line 297: the condition of the assert
DashPrerequisite(ss, v, a) == v # 0 /\ a # 0 /\ ss.ffmpeg_available

\* lines 296-303
DashPrepare ==
    /\ pc = "dash_prep"
    /\ IF DashPrerequisite(session_state, selected_video_itag,
                           selected_audio_itag)
       THEN /\ session_state' = [session_state EXCEPT
                    !.downloaded_file_name =
                        DashFileName(session_state, video_stream, audio_stream)]
            /\ temp_dir' = TRUE
            /\ exc' = exc
            /\ pc' = "dl_video"
       ELSE /\ exc' = Exc("DASH pre-req failed", 19, 0)
            /\ pc' = "except"
            /\ UNCHANGED <<session_state, temp_dir>>
    /\ UNCHANGED <<widgets, submit_button, clicked, should_fetch,
                   trigger_download, selection, warned, fs, meter, calls,
                   last_error>>

\* the state when video_stream.download / audio_stream.download is called
TransferStarted(ss, phase, now) ==
    [ss EXCEPT
        !.current_download_phase = phase,
        !.last_progress = -1,
        !.last_update_time = now]

\* line 305
VideoDownloadReturns(content) ==
    /\ pc = "dl_video"
    /\ content \in ReturnedContents
    /\ session_state' = TransferStarted(session_state, "Downloading Video", clock)
    /\ fs' = Written(fs, temp_video_path(session_state), content)
    /\ calls' = Append(calls, Call("download", <<>>, selected_video_itag))
    /\ pc' = "dl_audio"
    /\ UNCHANGED <<widgets, locals, temp_dir, meter, last_error>>

\* a failed video transfer after which the script goes on to the audio
VideoDownloadRaisesContinues(content, n) ==
    /\ pc = "dl_video"
    /\ content \in RaisedContents
    /\ session_state' = TransferStarted(session_state, "Downloading Video", clock)
    /\ fs' = Written(fs, temp_video_path(session_state), content)
    /\ calls' = Append(calls, Call("download", <<>>, selected_video_itag))
    /\ exc' = Exc("", 0, n)
    /\ pc' = "dl_audio"
    /\ UNCHANGED <<widgets, submit_button, clicked, should_fetch,
                   trigger_download, selection, warned, temp_dir, meter,
                   last_error>>

VideoDownloadRaises(content, n) ==
    /\ pc = "dl_video"
    /\ content \in RaisedContents
    /\ session_state' = TransferStarted(session_state, "Downloading Video", clock)
    /\ fs' = Written(fs, temp_video_path(session_state), content)
    /\ calls' = Append(calls, Call("download", <<>>, selected_video_itag))
    /\ exc' = Exc("", 0, n)
    /\ pc' = "except"
    /\ UNCHANGED <<widgets, submit_button, clicked, should_fetch,
                   trigger_download, selection, warned, temp_dir, meter,
                   last_error>>

\* line 306
AudioDownloadReturns(content) ==
    /\ pc = "dl_audio"
    /\ content \in ReturnedContents
    /\ session_state' = TransferStarted(session_state, "Downloading Audio", clock)
    /\ fs' = Written(fs, temp_audio_path(session_state, audio_stream), content)
    /\ calls' = Append(calls, Call("download", <<>>, selected_audio_itag))
    /\ pc' = "pre_merge"
    /\ UNCHANGED <<widgets, locals, temp_dir, meter, last_error>>

\* a failed audio transfer after which the temporary files are cleaned up
AudioDownloadRaisesCleaned(content, n) ==
    /\ pc = "dl_audio"
    /\ content \in RaisedContents
    /\ session_state' = TransferStarted(session_state, "Downloading Audio", clock)
    /\ fs' = Written(fs, temp_audio_path(session_state, audio_stream), content)
    /\ calls' = Append(calls, Call("download", <<>>, selected_audio_itag))
    /\ exc' = Exc("", 0, n)
    /\ pc' = "cleanup"
    /\ UNCHANGED <<widgets, submit_button, clicked, should_fetch,
                   trigger_download, selection, warned, temp_dir, meter,
                   last_error>>

AudioDownloadRaises(content, n) ==
    /\ pc = "dl_audio"
    /\ content \in RaisedContents
    /\ session_state' = TransferStarted(session_state, "Downloading Audio", clock)
    /\ fs' = Written(fs, temp_audio_path(session_state, audio_stream), content)
    /\ calls' = Append(calls, Call("download", <<>>, selected_audio_itag))
    /\ exc' = Exc("", 0, n)
    /\ pc' = "except"
    /\ UNCHANGED <<widgets, submit_button, clicked, should_fetch,
                   trigger_download, selection, warned, temp_dir, meter,
                   last_error>>


\* line 308: the condition of the assert
TempFilesPresent(f, vpath, apath) == Exists(f, vpath) /\ Exists(f, apath)

\* lines 307-308
PreMerge ==
    /\ pc = "pre_merge"
    /\ session_state' = [session_state EXCEPT
            !.merge_status = Msg(<<"Merging files...">>, 0)]
    /\ IF TempFilesPresent(fs, temp_video_path(session_state),
                           temp_audio_path(session_state, audio_stream))
       THEN exc' = exc /\ pc' = "merge"
       ELSE exc' = Exc("Temp files missing", 18, 0) /\ pc' = "except"
    /\ UNCHANGED <<widgets, submit_button, clicked, should_fetch,
                   trigger_download, selection, warned, disk, meter, calls,
                   last_error>>

\* what ffmpeg can leave at its output when it exits 0, and when it fails
MergedContents == {"data", "empty", "keep"}

FailedMergeContents == {"keep", "empty", "data"}

\* line 310: subprocess.run returns (exit status 0)
MergeSucceeds(content) ==
    /\ pc = "merge"
    /\ content \in MergedContents
    /\ session_state' = [session_state EXCEPT
            !.merge_status = Msg(<<"Merge OK!">>, 0),
            !.downloaded_file_path = final_filepath(session_state)]
    /\ fs' = Written(fs, final_filepath(session_state), content)
    /\ calls' = Append(calls, Call("ffmpeg", <<>>, 0))
    /\ pc' = "cleanup"
    /\ UNCHANGED <<widgets, locals, temp_dir, meter, last_error>>

\* the text of the RuntimeError of line 311; n is the length of e.stderr
MergeError(n) == Exc("FFmpeg failed: ", 15, n)

\* a failed merge whose exception skips the cleanup
MergeFailsNoCleanup(content, n) ==
    /\ pc = "merge"
    /\ content \in FailedMergeContents
    /\ session_state' = [session_state EXCEPT
            !.merge_status = Msg(<<"Merge Fail: ">>, Min(n, 200))]
    /\ fs' = Written(fs, final_filepath(session_state), content)
    /\ calls' = Append(calls, Call("ffmpeg", <<>>, 0))
    /\ exc' = MergeError(n)
    /\ pc' = "except"
    /\ UNCHANGED <<widgets, submit_button, clicked, should_fetch,
                   trigger_download, selection, warned, temp_dir, meter,
                   last_error>>

\* lines 310-311: CalledProcessError (exit status not 0)
MergeFails(content, n) ==
    /\ pc = "merge"
    /\ content \in FailedMergeContents
    /\ session_state' = [session_state EXCEPT
            !.merge_status = Msg(<<"Merge Fail: ">>, Min(n, 200))]
    /\ fs' = Written(fs, final_filepath(session_state), content)
    /\ calls' = Append(calls, Call("ffmpeg", <<>>, 0))
    /\ exc' = MergeError(n)
    /\ pc' = "cleanup"
    /\ UNCHANGED <<widgets, submit_button, clicked, should_fetch,
                   trigger_download, selection, warned, temp_dir, meter,
                   last_error>>

\* os.listdir(temp_dir_path) is empty
TempDirEmpty(f) == \A q \in DOMAIN f : q.dir # temp_dir_path

\* a cleanup that forgets the audio file
CleanedFilesVideoOnly(f, vpath, apath, fail_at) ==
    IF fail_at = "video" THEN f ELSE Remove(f, vpath)

\* lines 314-318; fail_at is the call that raises OSError ("none": no call
\* does).  A call that raises ends the cleanup.
CleanedFiles(f, vpath, apath, fail_at) ==
    IF fail_at = "video" THEN f
    ELSE IF fail_at = "audio" THEN Remove(f, vpath)
    ELSE Remove(Remove(f, vpath), apath)

CleanedDir(f, dir_exists, vpath, apath, fail_at) ==
    IF fail_at = "none" /\ TempDirEmpty(CleanedFiles(f, vpath, apath, fail_at))
    THEN FALSE
    ELSE dir_exists

\* the call fail_at is made by the cleanup
CleanupReaches(f, dir_exists, vpath, apath, fail_at) ==
    \/ fail_at = "none"
    \/ fail_at = "video" /\ Exists(f, vpath)
    \/ fail_at = "audio" /\ Exists(f, apath)
    \/ /\ fail_at = "dir"
       /\ dir_exists
       /\ TempDirEmpty(Remove(Remove(f, vpath), apath))

\* lines 312-319: the finally of the merge; an exception in flight goes on
\* to line 326 after it
Cleanup(fail_at) ==
    /\ pc = "cleanup"
    /\ LET vpath == temp_video_path(session_state)
           apath == temp_audio_path(session_state, audio_stream)
       IN  /\ CleanupReaches(fs, temp_dir, vpath, apath, fail_at)
           /\ fs' = CleanedFiles(fs, vpath, apath, fail_at)
           /\ temp_dir' = CleanedDir(fs, temp_dir, vpath, apath, fail_at)
    /\ pc' = IF exc # NoExc THEN "except" ELSE "final"
    /\ UNCHANGED <<session_state, widgets, locals, meter, calls, last_error>>

\* a final check that lacks the size test
FinalFileExists(ss, f) ==
    /\ ss.downloaded_file_path # NoPath
    /\ Exists(f, ss.downloaded_file_path)

\* line 321: the condition of the assert
FinalFileValid(ss, f) ==
    /\ ss.downloaded_file_path # NoPath
    /\ Exists(f, ss.downloaded_file_path)
    /\ NonEmpty(f, ss.downloaded_file_path)

\* lines 321-324
FinalCheck ==
    /\ pc = "final"
    /\ IF FinalFileValid(session_state, fs)
       THEN /\ session_state' = [session_state EXCEPT
                    !.downloaded_file_size = fs[session_state.downloaded_file_path],
                    !.download_complete = TRUE,
                    !.error_message = NoError]
            /\ exc' = exc
            /\ pc' = "finally"
       ELSE /\ exc' = Exc("Final file invalid", 18, 0)
            /\ pc' = "except"
            /\ UNCHANGED session_state
    /\ UNCHANGED <<widgets, submit_button, clicked, should_fetch,
                   trigger_download, selection, warned, disk, meter, calls,
                   last_error>>

\* a message that leaves the collaborator's diagnostic out
DownloadErrorMessageBare(e) == Msg(<<"Download Error: ", e.text>>, 0)

\* line 327: f"Download Error: {str(e)[:200]}..."
DownloadErrorMessage(e) ==
    Msg(<<"Download Error: ", e.text>>, Max(0, Min(e.n, 200 - e.len)))

\* a handler that leaves downloaded_file_path as it is
HandledKeepsPath(ss, e) ==
    [ss EXCEPT
        !.error_message = DownloadErrorMessage(e),
        !.download_complete = FALSE]

\* lines 326-328: the state the handler leaves
Handled(ss, e) ==
    [ss EXCEPT
        !.error_message = DownloadErrorMessage(e),
        !.download_complete = FALSE,
        !.downloaded_file_path = NoPath]

\* lines 326-330
ExceptHandler ==
    /\ pc = "except"
    /\ session_state' = Handled(session_state, exc)
    /\ last_error' = "download"
    /\ pc' = "finally"
    /\ UNCHANGED <<widgets, locals, disk, meter, calls>>

\* lines 331-335, and lines 338-358 after them
\* a finally block that leaves download_in_progress set
FinallyBlockKeepsProgress ==
    /\ pc = "finally"
    /\ Finish(LinkSection([session_state EXCEPT
                              !.current_download_phase = ""],
                          current_input_url, fs))
    /\ UNCHANGED <<widgets, exc, warned, disk, meter, calls, last_error>>

FinallyBlock ==
    /\ pc = "finally"
    /\ Finish(LinkSection([session_state EXCEPT
                              !.download_in_progress = FALSE,
                              !.current_download_phase = ""],
                          current_input_url, fs))
    /\ UNCHANGED <<widgets, exc, warned, disk, meter, calls, last_error>>

Next ==
    \/ \E u \in Inputs : UserChangesUrl(u)
    \/ UserClicksFetch
    \/ \E u \in Inputs : UserChangesUrlAndClicksFetch(u)
    \/ \E m \in Modes : UserChoosesMode(m)
    \/ \E sel \in Choices(session_state) : UserClicksDownload(sel)
    \/ UserReruns
    \/ FileRemoved
    \/ SubmittedValid
    \/ SubmittedInvalid
    \/ \E title \in Titles, streams \in Videos, avail_raises \in BOOLEAN :
         \E sel \in Choices(FetchedState(session_state, fetch_url, title, streams)) :
            FetchReturns(title, streams, avail_raises, sel)
    \/ \E kind \in {"VideoUnavailable", "RegexMatchError", "Exception"},
          n \in DiagLens, avail_raises \in BOOLEAN :
            FetchRaises(kind, n, avail_raises)
    \/ DownloadInit
    \/ ResolveStreams
    \/ \E content \in ReturnedContents : ProgressiveDownloadReturns(content)
    \/ \E content \in RaisedContents, n \in DiagLens :
            ProgressiveDownloadRaises(content, n)
    \/ DashPrepare
    \/ \E content \in ReturnedContents : VideoDownloadReturns(content)
    \/ \E content \in RaisedContents, n \in DiagLens :
            VideoDownloadRaises(content, n)
    \/ \E content \in ReturnedContents : AudioDownloadReturns(content)
    \/ \E content \in RaisedContents, n \in DiagLens :
            AudioDownloadRaises(content, n)
    \/ PreMerge
    \/ \E content \in MergedContents : MergeSucceeds(content)
    \/ \E content \in FailedMergeContents, n \in DiagLens : MergeFails(content, n)
    \/ \E fail_at \in {"none", "video", "audio", "dir"} : Cleanup(fail_at)
    \/ FinalCheck
    \/ ExceptHandler
    \/ FinallyBlock

Spec == Init /\ [][Next]_vars

\* a file that is not the script's own: DOWNLOAD_DIR/temp outlives the
\* session, and another session or program may have left a file there
OtherTempFile == Path(temp_dir_path, <<"other_aud.webm">>)

\* the session starts with DOWNLOAD_DIR/temp absent, or present and holding
\* such a file
InitTemp ==
    /\ session_state \in
         {[DEFAULT_STATE EXCEPT !.ffmpeg_available = b] : b \in BOOLEAN}
    /\ url_input_widget = <<>>
    /\ mode_radio = ""
    /\ dl_button = ""
    /\ pc = "idle"
    /\ submit_button = FALSE
    /\ clicked = ""
    /\ should_fetch = FALSE
    /\ trigger_download = FALSE
    /\ selected_stream_itag = 0
    /\ selected_video_itag_manual = 0
    /\ selected_audio_itag_manual = 0
    /\ selected_video_itag = 0
    /\ selected_audio_itag = 0
    /\ exc = NoExc
    /\ warned = FALSE
    /\ \/ fs = <<>> /\ temp_dir = FALSE
       \/ fs = Write(<<>>, OtherTempFile, "data") /\ temp_dir = TRUE
    /\ clock = 1
    /\ bytes_remaining = 0
    /\ progress_bar_calls = 0
    /\ status_text_calls = 0
    /\ calls = <<>>
    /\ last_error = "none"

SpecTemp == InitTemp /\ [][Next]_vars

(***************************************************************************)
(* The validator on a corpus of URL texts: the user types a text of        *)
(* UrlCorpus and clicks Fetch (lines 131-136, 143-145); the collaborator   *)
(* is kept failing, so the run ends after the validation or the fetch.     *)
(***************************************************************************)
Schemes == {<<>>, LitHttp, LitHttps}

Subdomains == {<<>>, LitWww, LitM}

PagePaths == {LitWatch, LitShorts, LitShort}

\* the prefixes that YOUTUBE_REGEX allows before the video id
UrlPrefixes == { s \o d \o p : s \in Schemes, d \in Subdomains, p \in PagePaths }

\* watch-page, short-link and shorts links with an 11-character video id
GrammarUrls == { p \o VideoId1 : p \in UrlPrefixes }

\* youtube.com
BareDomain == SubSeq(LitWatch, 1, 11)

\* a watch-page link whose id has 12 characters
LongIdUrl == LitHttps \o LitWww \o LitWatch \o VideoId1 \o <<"Z">>

\* a short link whose id has 12 characters
LongIdShortUrl == LitShort \o VideoId2 \o <<"l">>

\* https://vimeo.com/<id> and a text that is no URL
UnrelatedUrls ==
    { LitHttps \o <<"v","i","m","e","o",".","c","o","m","/">> \o VideoId1,
      <<"h","e","l","l","o">> }

NegativeUrls ==
    {<<>>, BareDomain, LitHttps \o LitWww \o BareDomain, BadUrl,
     LitHttps \o LitWww \o LitWatch \o SubSeq(VideoId1, 1, 10),
     LongIdUrl, LongIdShortUrl} \cup UnrelatedUrls

UrlCorpus == GrammarUrls \cup NegativeUrls

NextUrl ==
    \/ \E u \in UrlCorpus : UserChangesUrlAndClicksFetch(u)
    \/ SubmittedValid
    \/ SubmittedInvalid
    \/ \E kind \in {"VideoUnavailable", "RegexMatchError", "Exception"},
          n \in DiagLens, avail_raises \in BOOLEAN :
            FetchRaises(kind, n, avail_raises)

SpecUrl == Init /\ [][NextUrl]_vars

(***************************************************************************)
(* The sanitizer on a corpus of titles: the collaborator reports a title   *)
(* of TitleCorpus for a video with progressive streams, and the user       *)
(* downloads it (line 286 applies sanitize_filename to the title); the     *)
(* transfer is kept failing, so the runs leave no files behind.            *)
(***************************************************************************)
\* a title longer than the cut of line 45
LongTitle == [i \in 1..(MaxNameLen + 1) |-> "a"]

\* titles of kept characters, of removed characters only, of whitespace
\* only, of trimmed separators only, and mixtures
TitleCorpus ==
    { <<>>,
      <<"M", "y", " ", "V", ":">>,
      <<"a", "/", "b">>,
      <<"a", " ", " ", "\t", "b">>,
      <<":">>,
      <<"?", "*", "|">>,
      <<" ">>,
      <<" ", "\t", " ">>,
      <<".", ".", ".">>,
      <<"_", "-", "_">>,
      <<".", ".", "/">>,
      <<"-", " ", ":", " ", ".">>,
      LongTitle,
      <<":">> \o LongTitle \o <<" ", ".">> }

ProgressiveVideo == Buckets(<<P18, P22>>, <<>>, <<>>)

NextTitle ==
    \/ UserChangesUrlAndClicksFetch(Url1)
    \/ UserClicksFetch
    \/ SubmittedValid
    \/ \E title \in TitleCorpus :
         \E sel \in Choices(FetchedState(session_state, fetch_url, title,
                                         ProgressiveVideo)) :
            FetchReturns(title, ProgressiveVideo, FALSE, sel)
    \/ \E sel \in Choices(session_state) : UserClicksDownload(sel)
    \/ DownloadInit
    \/ ResolveStreams
    \/ \E n \in DiagLens : ProgressiveDownloadRaises("keep", n)
    \/ ExceptHandler
    \/ FinallyBlock

SpecTitle == Init /\ [][NextTitle]_vars

(***************************************************************************)
(* The progress callback.  A transfer is taken apart here: the statements  *)
(* before stream.download (lines 292, 305, 306), the progress events that  *)
(* pytube reports while the call runs, the passing of time, and the return *)
(* of the call.  The clock counts quarters of a second.                    *)
(***************************************************************************)
\* line 15: 0.5 seconds
PROGRESS_UPDATE_INTERVAL_SECS == 2

\* the size of every stream in bytes, and the sizes of the chunks received
FileSize == 200

ChunkSizes == {1, 100}

MaxClock == 5

\* audio only, filesize None
A140 == Stream(140, "", "128kbps", "mp4a.40.2", "mp4", FALSE)

MeteredVideo == Buckets(<<P18>>, <<V137>>, <<A251, A140>>)

BusyPcs == {"prog_busy", "video_busy", "audio_busy"}

\* the stream whose download is running
transferred_stream ==
    IF pc = "prog_busy" THEN get_by_itag(session_state, selected_stream_itag)
    ELSE IF pc = "video_busy" THEN video_stream
    ELSE audio_stream

\* line 251: getattr(stream, 'filesize', 0) or 0
total_size(stream) == IF stream.has_filesize THEN FileSize ELSE 0

\* line 253: min(100, int((bytes_downloaded / total_size) * 100))
percentage(total, remaining) ==
    Min(100, ((total - remaining) * 100) \div total)

\* a test that looks at the percentage alone
ShouldReportOnAdvanceOnly(ss, pct, current_time) == pct > ss.last_progress

\* line 256
ShouldReport(ss, pct, current_time) ==
    \/ pct > ss.last_progress
    \/ current_time - ss.last_update_time > PROGRESS_UPDATE_INTERVAL_SECS

\* lines 250-262: progress_callback(stream, chunk, bytes_remaining)
progress_callback(stream, remaining) ==
    LET total == total_size(stream)
        pct == percentage(total, remaining)
    IN  IF total = 0
        THEN UNCHANGED <<session_state, progress_bar_calls, status_text_calls>>
        ELSE /\ progress_bar_calls' = progress_bar_calls + 1
             /\ IF ShouldReport(session_state, pct, clock)
                THEN /\ status_text_calls' = status_text_calls + 1
                     /\ session_state' = [session_state EXCEPT
                             !.last_progress = pct,
                             !.last_update_time = clock]
                ELSE UNCHANGED <<session_state, status_text_calls>>

\* line 292, up to the call of stream.download
ProgressiveTransferStarts ==
    /\ pc = "prog_dl"
    /\ session_state' = ProgressiveStarted(session_state, clock)
    /\ bytes_remaining' = FileSize
    /\ progress_bar_calls' = 0
    /\ status_text_calls' = 0
    /\ pc' = "prog_busy"
    /\ UNCHANGED <<widgets, locals, disk, clock, calls, last_error>>

\* line 305, up to the call of video_stream.download
VideoTransferStarts ==
    /\ pc = "dl_video"
    /\ session_state' = TransferStarted(session_state, "Downloading Video", clock)
    /\ bytes_remaining' = FileSize
    /\ progress_bar_calls' = 0
    /\ status_text_calls' = 0
    /\ pc' = "video_busy"
    /\ UNCHANGED <<widgets, locals, disk, clock, calls, last_error>>

\* line 306, up to the call of audio_stream.download
AudioTransferStarts ==
    /\ pc = "dl_audio"
    /\ session_state' = TransferStarted(session_state, "Downloading Audio", clock)
    /\ bytes_remaining' = FileSize
    /\ progress_bar_calls' = 0
    /\ status_text_calls' = 0
    /\ pc' = "audio_busy"
    /\ UNCHANGED <<widgets, locals, disk, clock, calls, last_error>>

\* pytube has received a chunk and calls the registered callback
ProgressEvent(chunk) ==
    /\ pc \in BusyPcs
    /\ chunk <= bytes_remaining
    /\ bytes_remaining' = bytes_remaining - chunk
    /\ progress_callback(transferred_stream, bytes_remaining - chunk)
    /\ UNCHANGED <<widgets, pc, locals, disk, clock, calls, last_error>>

\* time passes while a download runs or before the next one starts
Tick ==
    /\ pc \in BusyPcs \cup {"dl_audio"}
    /\ clock < MaxClock
    /\ clock' = clock + 1
    /\ UNCHANGED <<session_state, widgets, pc, locals, disk, bytes_remaining,
                   progress_bar_calls, status_text_calls, calls, last_error>>

\* line 294: stream.download returns
ProgressiveTransferReturns ==
    /\ pc = "prog_busy"
    /\ bytes_remaining = 0
    /\ session_state' = [session_state EXCEPT
            !.downloaded_file_path = final_filepath(session_state)]
    /\ fs' = Write(fs, final_filepath(session_state), "data")
    /\ calls' = Append(calls, Call("download", <<>>, selected_stream_itag))
    /\ pc' = "final"
    /\ UNCHANGED <<widgets, locals, temp_dir, meter, last_error>>

\* line 305: video_stream.download returns
VideoTransferReturns ==
    /\ pc = "video_busy"
    /\ bytes_remaining = 0
    /\ fs' = Write(fs, temp_video_path(session_state), "data")
    /\ calls' = Append(calls, Call("download", <<>>, selected_video_itag))
    /\ pc' = "dl_audio"
    /\ UNCHANGED <<session_state, widgets, locals, temp_dir, meter, last_error>>

\* line 306: audio_stream.download returns
AudioTransferReturns ==
    /\ pc = "audio_busy"
    /\ bytes_remaining = 0
    /\ fs' = Write(fs, temp_audio_path(session_state, audio_stream), "data")
    /\ calls' = Append(calls, Call("download", <<>>, selected_audio_itag))
    /\ pc' = "pre_merge"
    /\ UNCHANGED <<session_state, widgets, locals, temp_dir, meter, last_error>>

NextProgress ==
    \/ UserChangesUrlAndClicksFetch(Url1)
    \/ SubmittedValid
    \/ \E sel \in Choices(FetchedState(session_state, fetch_url,
                                       <<"M", "y", " ", "V", ":">>,
                                       MeteredVideo)) :
          FetchReturns(<<"M", "y", " ", "V", ":">>, MeteredVideo, FALSE, sel)
    \/ \E m \in Modes : UserChoosesMode(m)
    \/ \E sel \in Choices(session_state) : UserClicksDownload(sel)
    \/ DownloadInit
    \/ ResolveStreams
    \/ DashPrepare
    \/ ProgressiveTransferStarts
    \/ VideoTransferStarts
    \/ AudioTransferStarts
    \/ \E chunk \in ChunkSizes : ProgressEvent(chunk)
    \/ Tick
    \/ ProgressiveTransferReturns
    \/ VideoTransferReturns
    \/ AudioTransferReturns
    \/ PreMerge
    \/ MergeSucceeds("data")
    \/ Cleanup("none")
    \/ FinalCheck
    \/ FinallyBlock

SpecProgress == Init /\ [][NextProgress]_vars

(***************************************************************************)
(* Properties.  A run has ended when pc = "idle"; calls then holds the     *)
(* collaborator calls of the run that ended and exc the exception its      *)
(* handler caught.                                                         *)
(***************************************************************************)

\* C1: at the end of every run of the script, downloaded_file_path is set
\* if and only if download_complete is True.
C1_PathIffComplete ==
    pc = "idle" =>
        ((session_state.downloaded_file_path # NoPath)
            <=> session_state.download_complete)

\* a download succeeded after an earlier one had failed and lost its path
C1_Witness ==
    /\ pc = "idle"
    /\ last_error = "download"
    /\ session_state.download_complete
    /\ session_state.downloaded_file_path # NoPath

C3_ErrorExactlyOnFailure ==
    LET error == IsSet(session_state.error_message)
    IN  /\ last_error \in {"invalid", "fetch"} => error
        /\ (pc \in {"finally", "idle"} /\ exc # NoExc) => error
        /\ error => last_error # "none"
        /\ (pc = "fetch" /\ should_fetch) => ~error
        /\ pc \in {"resolve", "prog_dl", "dash_prep", "dl_video", "dl_audio",
                   "pre_merge", "merge", "cleanup", "final"} => ~error
        /\ (pc = "idle" /\ error) =>
              /\ ~session_state.download_complete
              /\ session_state.downloaded_file_path = NoPath

\* a run has ended in which the final check failed after a merge
C3_Witness ==
    /\ pc = "idle"
    /\ exc.text = "Final file invalid"
    /\ IsSet(session_state.error_message)
    /\ \E i \in 1..Len(calls) : calls[i].op = "ffmpeg"

\* C4 as stated: a Fetch click with a non-empty input resets every workflow
\* field, the chosen mode among them, and leaves last_fetched_url as it was.
C4_SubmitResetsEveryField ==
    [][ (pc = "idle" /\ pc' = "validate") =>
          /\ \A key \in {"video_info", "progressive_streams",
                         "adaptive_video_streams", "adaptive_audio_streams",
                         "streams_fetched", "error_message", "last_progress",
                         "last_update_time", "download_in_progress",
                         "download_complete", "downloaded_file_path",
                         "downloaded_file_name", "downloaded_file_size",
                         "merge_status", "current_download_phase",
                         "download_mode"} :
                session_state'[key] = DEFAULT_STATE[key]
          /\ session_state'.last_fetched_url = session_state.last_fetched_url
      ]_vars

\* C4, amended: a Fetch click with a non-empty input resets the fifteen
\* fields of keys_to_reset before anything else is done, records the input
\* as last_submitted_url, and leaves last_fetched_url, download_mode and
\* ffmpeg_available as they were.
C4_SubmitResetsListedFields ==
    [][ (pc = "idle" /\ pc' = "validate") =>
          /\ \A key \in {"video_info", "progressive_streams",
                         "adaptive_video_streams", "adaptive_audio_streams",
                         "streams_fetched", "error_message", "last_progress",
                         "last_update_time", "download_in_progress",
                         "download_complete", "downloaded_file_path",
                         "downloaded_file_name", "downloaded_file_size",
                         "merge_status", "current_download_phase"} :
                session_state'[key] = DEFAULT_STATE[key]
          /\ session_state'.last_submitted_url = url_input_widget'
          /\ \A key \in {"last_fetched_url", "download_mode",
                         "ffmpeg_available"} :
                session_state'[key] = session_state[key]
          /\ calls' = <<>>
      ]_vars

\* a submission has just reset a state that held a fetched video, and the
\* mode chosen before is still there
C4_Witness ==
    /\ pc = "validate"
    /\ session_state.download_mode = MODE_PROGRESSIVE
    /\ session_state.last_fetched_url # <<>>
    /\ session_state.video_info = NoInfo

\* C5: every URL passed to YouTube() is non-empty and matches YOUTUBE_REGEX,
\* whatever caused the fetch; an invalid submission records "Invalid YouTube
\* URL format." and the run calls nothing.
C5_FetchOnlyValidUrl ==
    /\ \A i \in 1..Len(calls) :
          calls[i].op = "YouTube" =>
              calls[i].url # <<>> /\ YOUTUBE_REGEX_match(calls[i].url)
    /\ last_error = "invalid" =>
          /\ session_state.error_message =
                Msg(<<"Invalid YouTube URL format.">>, 0)
          /\ \A i \in 1..Len(calls) : calls[i].op # "YouTube"

\* an invalid text was submitted after a fetch had been made
C5_Witness ==
    /\ pc = "idle"
    /\ last_error = "invalid"
    /\ url_input_widget = BadUrl
    /\ session_state.last_submitted_url = BadUrl
    /\ session_state.last_fetched_url # <<>>

\* C6 as stated: YouTube() is never called for the URL that last_fetched_url
\* holds, whether the run was started by a Fetch click or not.
C6_NoFetchOfFetchedUrl ==
    [][ (/\ Len(calls') > Len(calls)
         /\ calls'[Len(calls')].op = "YouTube")
        => calls'[Len(calls')].url # session_state.last_fetched_url ]_vars

\* C6, amended: a run that no Fetch click started never calls YouTube() for
\* the URL that last_fetched_url holds; a Fetch click with a valid input
\* resets the state and fetches, also when the input is that URL.
C6_NoRefetchWithoutSubmit ==
    [][ (/\ Len(calls') > Len(calls)
         /\ calls'[Len(calls')].op = "YouTube")
        => \/ calls'[Len(calls')].url # session_state.last_fetched_url
           \/ /\ submit_button
              /\ session_state.progressive_streams = <<>>
              /\ session_state.adaptive_video_streams = <<>>
              /\ session_state.adaptive_audio_streams = <<>> ]_vars

\* a run has ended without a call although nothing but the last-fetched
\* marker kept the auto-fetch rule from fetching the URL again
C6_Witness ==
    /\ pc = "idle"
    /\ calls = <<>>
    /\ url_input_widget = session_state.last_fetched_url
    /\ url_input_widget = session_state.last_submitted_url
    /\ is_valid_youtube_url(url_input_widget)
    /\ ~session_state.streams_fetched
    /\ ~IsSet(session_state.error_message)

\* C7: while a failed fetch is the last error recorded since the last Fetch
\* click, no run calls YouTube().
C7_NoAutomaticRetry ==
    [][ (/\ Len(calls') > Len(calls)
         /\ calls'[Len(calls')].op = "YouTube")
        => last_error # "fetch" ]_vars

\* a run has ended without a call after a fetch of the submitted URL had
\* failed; the error is all that keeps the auto-fetch rule from fetching
C7_Witness ==
    /\ pc = "idle"
    /\ last_error = "fetch"
    /\ calls = <<>>
    /\ url_input_widget = session_state.last_submitted_url
    /\ is_valid_youtube_url(url_input_widget)
    /\ ~session_state.streams_fetched
    /\ session_state.last_fetched_url # url_input_widget

\* C8: the modes offered are DASH-Auto and DASH-Manual iff both adaptive
\* buckets are non-empty and ffmpeg is available, and Progressive iff the
\* progressive bucket is non-empty; a download runs in an offered mode only,
\* and with no mode offered no run gets to a transfer.
C8_OfferedModes ==
    LET ss == session_state
        dash == /\ ss.adaptive_video_streams # <<>>
                /\ ss.adaptive_audio_streams # <<>>
                /\ ss.ffmpeg_available
        offered == (IF dash THEN {MODE_AUTO, MODE_MANUAL} ELSE {})
                   \cup (IF ss.progressive_streams # <<>>
                         THEN {MODE_PROGRESSIVE} ELSE {})
        transfers == {i \in 1..Len(calls) :
                        calls[i].op \in {"download", "ffmpeg"}}
    IN  /\ ss.streams_fetched => available_modes_map(ss) = offered
        /\ (pc = "idle" /\ mode_radio # "") => mode_radio \in offered
        /\ pc \in {"dl_init", "resolve", "prog_dl", "dash_prep", "dl_video",
                   "dl_audio", "pre_merge", "merge", "cleanup", "final"}
              => mode_to_execute \in offered
        /\ transfers # {} => offered # {}
        /\ (pc = "idle" /\ offered = {}) => dl_button = ""

\* a fetch found video-only and audio-only streams, ffmpeg is absent, and
\* the run ended with nothing offered
C8_Witness ==
    /\ pc = "idle"
    /\ session_state.streams_fetched
    /\ session_state.last_fetched_url = url_input_widget
    /\ session_state.adaptive_video_streams # <<>>
    /\ session_state.adaptive_audio_streams # <<>>
    /\ session_state.progressive_streams = <<>>
    /\ ~session_state.ffmpeg_available
    /\ mode_radio = ""
    /\ dl_button = ""

\* C9: when ffmpeg exits non-zero, download_complete stays False, no path is
\* set, and the run ends with error_message holding "FFmpeg failed: " and
\* the first 185 characters of ffmpeg's diagnostic.
C9_MergeFailureIsError ==
    exc.text = "FFmpeg failed: " =>
        /\ ~session_state.download_complete
        /\ session_state.downloaded_file_path = NoPath
        /\ mode_to_execute \in {MODE_AUTO, MODE_MANUAL}
        /\ pc \in {"finally", "idle"} =>
              /\ session_state.error_message =
                    Msg(<<"Download Error: ", "FFmpeg failed: ">>,
                        Min(exc.n, 185))
              /\ session_state.error_message.diag > 0

\* a DASH-Manual download has ended after ffmpeg failed with a long
\* diagnostic and left a file at its output
C9_Witness ==
    /\ pc = "idle"
    /\ exc = MergeError(300)
    /\ session_state.download_mode = MODE_MANUAL
    /\ \E p \in DOMAIN fs : p.dir = DOWNLOAD_DIR /\ fs[p] = "data"

\* C10: download_complete is set only when the final file exists and is not
\* empty; when the transfer or ffmpeg has returned and the file is absent or
\* empty, the run ends with an error, download_complete False and no path.
C10_CompleteOnlyIfVerified ==
    /\ (pc = "finally" /\ session_state.download_complete) =>
          NonEmpty(fs, session_state.downloaded_file_path)
    /\ (pc \in {"finally", "idle"} /\ exc.text = "Final file invalid") =>
          /\ ~session_state.download_complete
          /\ session_state.downloaded_file_path = NoPath
          /\ IsSet(session_state.error_message)

\* a progressive transfer returned and left an empty file, and the run
\* ended with the error of the final check
C10_Witness ==
    /\ pc = "idle"
    /\ exc.text = "Final file invalid"
    /\ session_state.download_mode = MODE_PROGRESSIVE
    /\ \E i \in 1..Len(calls) : calls[i].op = "download"
    /\ \E p \in DOMAIN fs : fs[p] = "empty"

\* C11: ffmpeg is only invoked (the run is at line 309) when both temporary
\* files exist and are not empty.
C11_MergeInputsVerified ==
    pc = "merge" =>
        /\ NonEmpty(fs, temp_video_path(session_state))
        /\ NonEmpty(fs, temp_audio_path(session_state, audio_stream))

\* C12: the cleanup after the merge changes nothing but the temporary files
\* and the directory: whatever it does, the run goes on to the final check
\* with the state ffmpeg left; when none of its calls raises, both temporary
\* files are gone and DOWNLOAD_DIR/temp is removed iff it is then empty; so
\* a run in which ffmpeg returned and the final check passed ends complete
\* with the path set, also when a temporary file is left behind.
C12_CleanupIsBestEffort ==
    /\ [](\A i \in 1..Len(calls) :
            (calls[i].op = "ffmpeg" /\ exc = NoExc /\ pc = "finally") =>
                /\ session_state.download_complete
                /\ session_state.downloaded_file_path
                      = final_filepath(session_state))
    /\ [][ pc = "cleanup" =>
            LET vpath == temp_video_path(session_state)
                apath == temp_audio_path(session_state, audio_stream)
            IN  /\ session_state' = session_state
                /\ exc' = exc
                /\ pc' = IF exc = NoExc THEN "final" ELSE "except"
                /\ \A p \in DOMAIN fs \ {vpath, apath} :
                      Exists(fs', p) /\ fs'[p] = fs[p]
                /\ Cleanup("none") =>
                      /\ ~Exists(fs', vpath)
                      /\ ~Exists(fs', apath)
                      /\ temp_dir' = ~TempDirEmpty(fs')
          ]_vars

\* a DASH download has ended complete although the cleanup left the
\* temporary audio file behind
C12_Witness ==
    /\ pc = "idle"
    /\ session_state.download_complete
    /\ session_state.download_mode = MODE_AUTO
    /\ \E i \in 1..Len(calls) : calls[i].op = "ffmpeg"
    /\ \E p \in DOMAIN fs : p.dir = temp_dir_path /\ p # OtherTempFile

\* C13: when stream.download raises (video, audio or progressive), that call
\* is the last collaborator call of the run and ffmpeg is not called; up to
\* the end of the run no file and no directory is touched (no cleanup), so
\* what the transfers wrote stays; the run ends with "Download Error: "
\* and the first 200 characters of the exception text, download_complete
\* False and no path.
C13_TransferFailureEndsRun ==
    /\ []((exc # NoExc /\ exc.text = "") =>
            /\ pc \in {"except", "finally", "idle"}
            /\ calls # <<>>
            /\ calls[Len(calls)].op = "download"
            /\ \A i \in 1..Len(calls) : calls[i].op # "ffmpeg"
            /\ ~session_state.download_complete
            /\ session_state.downloaded_file_path = NoPath
            /\ mode_to_execute \in {MODE_AUTO, MODE_MANUAL} => temp_dir
            /\ pc \in {"finally", "idle"} =>
                  session_state.error_message =
                      Msg(<<"Download Error: ", "">>, Min(exc.n, 200)))
    /\ [][ (exc # NoExc /\ exc.text = "" /\ pc # "idle") =>
              /\ fs' = fs
              /\ temp_dir' = temp_dir
              /\ calls' = calls ]_vars

\* the audio transfer of a DASH download raised after the video transfer
\* had returned, and the run has ended with the temporary video file in
\* place
C13_Witness ==
    /\ pc = "idle"
    /\ exc = Exc("", 0, 300)
    /\ Len(calls) = 2
    /\ mode_to_execute = MODE_AUTO
    /\ NonEmpty(fs, temp_video_path(session_state))

C15_NoStreamsIffBothEmpty ==
    [][ (pc = "fetch" /\ session_state'.video_info.yt_object)
        => LET ss == session_state'
               empty == /\ ss.progressive_streams = <<>>
                        /\ ss.adaptive_video_streams = <<>>
               no_streams ==
                   Msg(<<"No downloadable MP4 video streams found.">>, 0)
           IN  /\ empty <=> ~ss.streams_fetched
               /\ empty <=> ss.error_message = no_streams
               /\ ~empty => ~IsSet(ss.error_message)
               /\ (~empty /\ url_input_widget = fetch_url) =>
                      OptionsShown(ss, url_input_widget')
               /\ ss.last_fetched_url = fetch_url ]_vars

\* a fetch that found audio streams only has ended with the no-streams error
C15_Witness ==
    /\ pc = "idle"
    /\ \E i \in 1..Len(calls) : calls[i].op = "YouTube"
    /\ session_state.adaptive_audio_streams # <<>>
    /\ session_state.adaptive_video_streams = <<>>
    /\ session_state.progressive_streams = <<>>
    /\ ~session_state.streams_fetched
    /\ session_state.error_message =
          Msg(<<"No downloadable MP4 video streams found.">>, 0)

\* C16 as stated: a VideoUnavailable raised by YouTube(), yt.title or
\* yt.streams, and also one raised by yt.check_availability() (recorded in
\* warned), ends the fetch with the Unavailable error and streams_fetched
\* False.
C16_AnyUnavailableFailsFetch ==
    /\ [][ (/\ pc = "fetch"
            /\ FetchGuard(fetch_url)
            /\ \E n \in DiagLens, avail_raises \in BOOLEAN :
                   FetchRaises("VideoUnavailable", n, avail_raises))
           => /\ session_state'.error_message =
                    Msg(<<"Video unavailable (private, deleted, restricted).">>, 0)
              /\ ~session_state'.streams_fetched
              /\ ~OptionsShown(session_state', url_input_widget') ]_vars
    /\ [](warned =>
            /\ session_state.error_message =
                  Msg(<<"Video unavailable (private, deleted, restricted).">>, 0)
            /\ ~session_state.streams_fetched)

\* C16 (amended): a VideoUnavailable raised by YouTube(), yt.title or
\* yt.streams ends the fetch with the Unavailable error, streams_fetched False
\* and no options; one raised by yt.check_availability() is only logged, and
\* the fetch then ends as the remaining calls decide: with streams_fetched
\* True and no error exactly when they return a video with a progressive or
\* an adaptive video stream.
C16_UnavailableFailsFetch ==
    /\ [][ (/\ pc = "fetch"
            /\ FetchGuard(fetch_url)
            /\ \E n \in DiagLens, avail_raises \in BOOLEAN :
                   FetchRaises("VideoUnavailable", n, avail_raises))
           => /\ session_state'.error_message =
                    Msg(<<"Video unavailable (private, deleted, restricted).">>, 0)
              /\ ~session_state'.streams_fetched
              /\ ~OptionsShown(session_state', url_input_widget') ]_vars
    /\ []((warned /\ pc = "idle") =>
            /\ session_state.streams_fetched <=>
                  /\ session_state.video_info.yt_object
                  /\ \/ session_state.progressive_streams # <<>>
                     \/ session_state.adaptive_video_streams # <<>>
            /\ session_state.streams_fetched =>
                  ~IsSet(session_state.error_message)
            /\ ~session_state.streams_fetched =>
                  IsSet(session_state.error_message))

\* a fetch whose availability check passed has ended with the Unavailable
\* error
C16_Witness ==
    /\ pc = "idle"
    /\ ~warned
    /\ \E i \in 1..Len(calls) : calls[i].op = "YouTube"
    /\ session_state.error_message =
          Msg(<<"Video unavailable (private, deleted, restricted).">>, 0)
    /\ ~session_state.streams_fetched
    /\ session_state.video_info = NoInfo

\* C17: is_valid_youtube_url returns True for every link of the accepted
\* grammar and False for the empty text, a bare domain, a link whose id has
\* 10 characters, a link whose id has 12 characters and unrelated URLs; the
\* run that follows a Fetch click acts on that result (line 135).
C17_ValidatorAcceptsGrammarOnly ==
    /\ pc = "validate" =>
          /\ current_input_url \in GrammarUrls =>
                is_valid_youtube_url(current_input_url)
          /\ current_input_url \in NegativeUrls =>
                ~is_valid_youtube_url(current_input_url)
    /\ (pc = "fetch" /\ submit_button) => current_input_url \notin NegativeUrls
    /\ (pc = "idle" /\ last_error = "invalid") =>
          current_input_url \notin GrammarUrls

\* C18: the name sanitize_filename returns for the title of the video being
\* downloaded (line 286) has at most 100 characters, holds none of the
\* characters \ / * ? : " < > | and is not empty.
C18_SanitizedNameUsable ==
    pc = "prog_dl" =>
        LET name == base_filename(session_state)
        IN  /\ Len(name) <= 100
            /\ \A i \in 1..Len(name) : name[i] \notin StripChars
            /\ name # <<>>

\* the collaborator calls of a download run, as far as the run has got: one
\* transfer of the selected stream in Progressive mode; in the DASH modes
\* the video transfer, then the audio transfer, then ffmpeg
DownloadCallsInOrder ==
    (calls # <<>> /\ calls[1].op # "YouTube") =>
        /\ mode_to_execute \in Modes
        /\ Len(calls) <= IF mode_to_execute = MODE_PROGRESSIVE THEN 1 ELSE 3
        /\ \A i \in 1..Len(calls) :
              calls[i].op = IF i = 3 THEN "ffmpeg" ELSE "download"
        /\ pc # "idle" =>
              IF mode_to_execute = MODE_PROGRESSIVE
              THEN calls[1].itag = selected_stream_itag
              ELSE /\ calls[1].itag = selected_video_itag
                   /\ Len(calls) >= 2 => calls[2].itag = selected_audio_itag

\* a download run that has reached its finally block without an exception
\* has made all its calls
DownloadCallsComplete ==
    (pc = "finally" /\ exc = NoExc) =>
        Len(calls) = IF mode_to_execute = MODE_PROGRESSIVE THEN 1 ELSE 3

\* C19: in the DASH modes a download run calls the video transfer, the audio
\* transfer and ffmpeg in this order, each at most once, and each only while
\* no exception is in flight (the calls before it have returned); a
\* Progressive run makes exactly one transfer and never calls ffmpeg.
C19_TransfersThenMerge ==
    /\ []DownloadCallsInOrder
    /\ []DownloadCallsComplete
    /\ [][ (calls' # calls /\ calls' # <<>>
                /\ calls'[Len(calls')].op # "YouTube")
           => /\ exc = NoExc
              /\ Len(calls') = Len(calls) + 1
              /\ \A i \in 1..Len(calls) : calls'[i] = calls[i]
              /\ \/ pc = "prog_dl" /\ calls = <<>>
                 \/ pc = "dl_video" /\ calls = <<>>
                 \/ pc = "dl_audio" /\ Len(calls) = 1
                 \/ pc = "merge" /\ Len(calls) = 2 ]_vars

\* a DASH-Manual download has ended complete after its three calls
C19_Witness ==
    /\ pc = "idle"
    /\ session_state.download_complete
    /\ mode_to_execute = MODE_MANUAL
    /\ Len(calls) = 3
    /\ calls[1].itag = V299.itag
    /\ calls[2].itag = A171.itag
    /\ calls[3].op = "ffmpeg"

\* the positions of a download run in the order of the script
PcRank(p) ==
    CASE p = "dl_init" -> 1
      [] p = "resolve" -> 2
      [] p \in {"prog_dl", "dash_prep"} -> 3
      [] p = "dl_video" -> 4
      [] p = "dl_audio" -> 5
      [] p = "pre_merge" -> 6
      [] p = "merge" -> 7
      [] p = "cleanup" -> 8
      [] p = "final" -> 9
      [] p = "except" -> 10
      [] p = "finally" -> 11
      [] p = "idle" -> 12
      [] OTHER -> 0

\* the script has a step to take at its position; for a collaborator call
\* it is the step in which the call returns at once
DownloadStepEnabled ==
    CASE pc = "dl_init" -> ENABLED DownloadInit
      [] pc = "resolve" -> ENABLED ResolveStreams
      [] pc = "prog_dl" -> ENABLED ProgressiveDownloadReturns("keep")
      [] pc = "dash_prep" -> ENABLED DashPrepare
      [] pc = "dl_video" -> ENABLED VideoDownloadReturns("keep")
      [] pc = "dl_audio" -> ENABLED AudioDownloadReturns("keep")
      [] pc = "pre_merge" -> ENABLED PreMerge
      [] pc = "merge" -> ENABLED MergeSucceeds("keep")
      [] pc = "cleanup" -> ENABLED (Cleanup("video") \/ Cleanup("none"))
      [] pc = "final" -> ENABLED FinalCheck
      [] pc = "except" -> ENABLED ExceptHandler
      [] pc = "finally" -> ENABLED FinallyBlock
      [] OTHER -> FALSE

C23_TempFilesRemovedAfterFailedMerge ==
    /\ [][ pc = "merge" =>
              /\ pc' = "cleanup"
              /\ calls' = Append(calls, Call("ffmpeg", <<>>, 0))
              /\ fs'[temp_video_path(session_state)]
                    = fs[temp_video_path(session_state)]
              /\ fs'[temp_audio_path(session_state, audio_stream)]
                    = fs[temp_audio_path(session_state, audio_stream)] ]_vars
    /\ [][ (pc = "cleanup" /\ exc # NoExc) =>
              /\ exc = MergeError(exc.n)
              /\ exc' = exc
              /\ pc' = "except"
              /\ \/ /\ ~Exists(fs', temp_video_path(session_state))
                    /\ ~Exists(fs', temp_audio_path(session_state, audio_stream))
                 \/ Cleanup("video")
                 \/ Cleanup("audio") ]_vars
    /\ []((exc # NoExc /\ exc.text = "FFmpeg failed: " /\ pc = "idle") =>
              /\ session_state.error_message =
                    Msg(<<"Download Error: ", "FFmpeg failed: ">>,
                        Min(exc.n, 200 - exc.len))
              /\ ~session_state.download_complete
              /\ session_state.downloaded_file_path = NoPath)

\* a DASH download whose merge failed has ended in error; the temporary
\* directory is gone and what ffmpeg wrote is all that is left
C23_Witness ==
    /\ pc = "idle"
    /\ exc = MergeError(300)
    /\ Len(calls) = 3
    /\ ~temp_dir
    /\ fs # <<>>
    /\ \A p \in DOMAIN fs : p.dir = DOWNLOAD_DIR
    /\ IsSet(session_state.error_message)
    /\ ~session_state.download_complete

\* C21 as stated: during a transfer a progress event makes a visible update
\* (progress bar or status text) only if the integer percentage is greater
\* than the last reported one or more than 0.5 s have passed since the last
\* update, every advance of the percentage is reported, and the markers are
\* reset (last_progress to -1, last_update_time to now) when a transfer starts.
C21_VisibleUpdateOnlyWhenDue ==
    /\ [][(pc \in BusyPcs /\ bytes_remaining' < bytes_remaining) =>
            LET total == total_size(transferred_stream)
                pct == IF total = 0 THEN 0
                       ELSE percentage(total, bytes_remaining')
                due == \/ pct > session_state.last_progress
                       \/ clock - session_state.last_update_time
                            > PROGRESS_UPDATE_INTERVAL_SECS
            IN  /\ (\/ progress_bar_calls' # progress_bar_calls
                    \/ status_text_calls' # status_text_calls) => due
                /\ (total # 0 /\ pct > session_state.last_progress) =>
                       /\ status_text_calls' = status_text_calls + 1
                       /\ session_state'.last_progress = pct]_vars
    /\ [][(pc \notin BusyPcs /\ pc' \in BusyPcs) =>
            /\ session_state'.last_progress = -1
            /\ session_state'.last_update_time = clock]_vars

\* C21, amended: on a progress event of a stream of known size the progress
\* bar is set every time, while the status text is written and the markers
\* are set exactly when the integer percentage is greater than the last
\* reported one or more than 0.5 s have passed since the last update; so the
\* last reported percentage is always the current one.  An event of a stream
\* of unknown size updates nothing.  The markers are reset (last_progress to
\* -1, last_update_time to now) when a transfer starts.
C21_StatusTextOnlyWhenDue ==
    /\ [][(pc \in BusyPcs /\ bytes_remaining' < bytes_remaining) =>
            LET total == total_size(transferred_stream)
                pct == IF total = 0 THEN 0
                       ELSE percentage(total, bytes_remaining')
                due == \/ pct > session_state.last_progress
                       \/ clock - session_state.last_update_time
                            > PROGRESS_UPDATE_INTERVAL_SECS
            IN  IF total = 0
                THEN /\ progress_bar_calls' = progress_bar_calls
                     /\ status_text_calls' = status_text_calls
                     /\ session_state' = session_state
                ELSE /\ progress_bar_calls' = progress_bar_calls + 1
                     /\ IF due
                        THEN /\ status_text_calls' = status_text_calls + 1
                             /\ session_state'.last_progress = pct
                             /\ session_state'.last_update_time = clock
                        ELSE /\ status_text_calls' = status_text_calls
                             /\ session_state' = session_state]_vars
    /\ [][(pc \notin BusyPcs /\ pc' \in BusyPcs) =>
            /\ session_state'.last_progress = -1
            /\ session_state'.last_update_time = clock
            /\ bytes_remaining' = FileSize
            /\ progress_bar_calls' = 0
            /\ status_text_calls' = 0]_vars
    /\ [](pc \in BusyPcs =>
            IF total_size(transferred_stream) = 0 \/ progress_bar_calls = 0
            THEN /\ session_state.last_progress = -1
                 /\ status_text_calls = 0
            ELSE session_state.last_progress
                     = percentage(FileSize, bytes_remaining))

\* the audio transfer, after the video transfer, five events in: the first,
\* second and fourth advanced the percentage; of the third and the fifth one
\* was reported because of the time passed and the other was not reported
C21_Witness ==
    /\ pc = "audio_busy"
    /\ total_size(transferred_stream) = FileSize
    /\ bytes_remaining = FileSize - 5
    /\ progress_bar_calls = 5
    /\ status_text_calls = 4
    /\ session_state.last_progress = 2
    /\ Len(calls) = 1

=============================================================================
